---- MODULE Spec2Model ----
(***************************************************************************)
(* ffmpeg-restful: the request handlers of the service (the last copy of   *)
(* the server, src/unnamed/part_000 lines 156-722, whose info, convert and *)
(* random-screenshot handlers are those of src/index.js), the filesystem   *)
(* they share (uploads/, outputs/, /tmp) and the wall clock that names     *)
(* every artifact.  One job is one HTTP request.  Every callback of the    *)
(* code (route handler, ffprobe callback, 'stderr', 'end', 'error',        *)
(* download callback) is one atomic action, as in Node's single thread;    *)
(* the engine and the transfer run between the callbacks.                  *)
(***************************************************************************)
EXTENDS Integers, Sequences, FiniteSets, TLC

\* ------------------------------------------------------------- bounds
MaxClock == 2        \* readings of Date.now() the model distinguishes
MaxLines == 2        \* lines with "crop=" one crop detector run prints

\* ------------------------------------------------------------- inputs
Jobs == {"j1", "j2"}                    \* concurrent requests
Names == {"a.mp4"}                      \* file.originalname
VideoFormats == {"mp4"}                 \* req.body.format of convert / remove-letterbox
ImageFormats == {"jpg", "AVIF", "bmp"}  \* req.body.format of random-screenshot / probe
Durations == {-20, 0, 100}              \* metadata.format.duration, in tenths of a second;
                                        \* 0 is also the duration of metadata that gives none
Times == {-50, 150}                     \* req.body.time of probe, in tenths of a second
\* /probe takes its options from a JSON body, so its format can be a value
\* that is not a string: here the number 5, written as its JSON text (no
\* request of the model gives the string "5").
NonStringFormats == {"5"}
ProbeFormats == ImageFormats \cup NonStringFormats

\* A line of the detector's diagnostic stream: crop says whether the line
\* contains the text "crop=", and w, h, x, y are the numbers printed after it.
Line(c, w, h, x, y) == [crop |-> c, w |-> w, h |-> h, x |-> x, y |-> y]
Lines == { Line(FALSE, 0, 0, 0, 0),
           Line(TRUE, 100, 96, 0, 2),
           Line(TRUE, 0, 80, 4, 6),
           Line(TRUE, -8, -8, 0, 0) }

NoPath == <<"", 0, "", "">>
NoCrop == <<-1, -1, -1, -1>>
NoCall == [fn |-> "none"]

VARIABLES
  now,      \* the reading of Date.now()
  files,    \* the paths that exist on the filesystem
  cropLog,  \* the text of /tmp/cropdetect_<t>.log, by t (lines, in order)
  job,      \* per request: the handler's locals, its position and its history
  crashed,  \* an exception left a callback uncaught: the process has exited
  call      \* one evaluation of an expression of a handler, taken alone:
            \* its arguments and, once evaluated, its result

vars == <<now, files, cropLog, job, crashed, call>>

\* ------------------------------------------------------------- paths
\* uploads/<Date.now()>-<originalname>
UploadPath(t, name) == <<"uploads", t, "-", name>>
\* outputs/<Date.now()>-output.<format>
ConvertOutputPath(t, format) == <<"outputs", t, "-output.", format>>
\* outputs/<Date.now()>-screenshot.<format>
ScreenshotOutputPath(t, format) == <<"outputs", t, "-screenshot.", format>>
\* outputs/<Date.now()>-thumbnail.<thumbnailFormat>
ThumbnailOutputPath(t, format) == <<"outputs", t, "-thumbnail.", format>>
\* outputs/<Date.now()>-letterbox-removed.<format>
LetterboxOutputPath(t, format) == <<"outputs", t, "-letterbox-removed.", format>>
\* /tmp/cropdetect_<Date.now()>.log
TempOutputPath(t) == <<"/tmp", t, "cropdetect_", ".log">>

\* ------------------------------------------------------------- formats
\* format.toLowerCase(), on the spellings the requests of the model use
ToLowerCase(f) ==
  CASE f \in {"AVIF", "Avif"} -> "avif"
    [] f \in {"WEBP", "WebP"} -> "webp"
    [] f \in {"JPG", "Jpg"} -> "jpg"
    [] f \in {"JPEG", "Jpeg"} -> "jpeg"
    [] f \in {"PNG", "Png"} -> "png"
    [] f = "BMP" -> "bmp"
    [] OTHER -> f
supportedFormats == {"jpg", "jpeg", "png", "webp", "avif"}
\* The container formats the engine can write, of those the requests name.
EngineFormats == {"mp4"}
\* const { format = 'mp4' } = req.body / req.body.format || 'jpg': a request
\* that gives no format ("") gets the default d.
FormatOr(f, d) == IF f = "" THEN d ELSE f

\* ------------------------------------------------------------- job record
NewJob ==
  [ op |-> "none", pc |-> "new", format |-> "", thumbnail |-> FALSE,
    reqFormat |-> "",      \* req.body.format of a conversion as given, "" when absent
    inputPath |-> NoPath, outputPath |-> NoPath, tempOutput |-> NoPath,
    inputOpen |-> FALSE,   \* the input existed when the running engine was spawned
    wrote |-> FALSE,       \* the running engine has written its output file
    engines |-> 0,         \* engine subprocesses of the job that are running
    nlines |-> 0,          \* lines with "crop=" the job's detector has printed
    lastOwn |-> NoCrop,    \* history: the last crop candidate the job's own detector printed
    duration |-> 0,        \* const duration of the frame-extraction handlers
    seek |-> 0, crop |-> NoCrop,
    health |-> "",         \* healthCheck.status
    body |-> "",           \* "metadata" when the JSON body of the response carries
                           \* the metadata the probe retrieved
    status |-> 0, error |-> "",
    trace |-> <<>> ]       \* history: what the job's callbacks did, in order

Init ==
  /\ now = 1
  /\ files = {}
  /\ cropLog = [t \in 1..MaxClock |-> <<>>]
  /\ job = [j \in Jobs |-> NewJob]
  /\ crashed = FALSE
  /\ call = NoCall

\* ------------------------------------------------------------- handler steps
\* A callback runs on a context c: the filesystem, the job's record and
\* thrown, which is set once a call has thrown; every later step of the
\* callback is then skipped.
Ctx(j) == [files |-> files, cropLog |-> cropLog, jr |-> job[j], thrown |-> FALSE]

\* The context of a callback that reports the end of the job's engine
\* subprocess (ffprobe's callback, 'end', 'error'): the subprocess has exited.
Exited(j) == [Ctx(j) EXCEPT !.jr.engines = @ - 1]

Event(c, e) ==
  IF c.thrown THEN c ELSE [c EXCEPT !.jr.trace = Append(@, e)]

\* A call of the callback throws: e names the call.
Throws(c, e) ==
  IF c.thrown THEN c ELSE [c EXCEPT !.thrown = TRUE, !.jr.trace = Append(@, e)]

\* The JSON body of the response to come carries the probe's metadata.
WithMetadata(c) ==
  IF c.thrown THEN c ELSE [c EXCEPT !.jr.body = "metadata"]

\* fs.unlinkSync(p): throws ENOENT when p does not exist.
UnlinkSync(c, p, role) ==
  IF c.thrown THEN c
  ELSE IF p \in c.files
       THEN [c EXCEPT !.files = @ \ {p},
                      !.cropLog = IF p[1] = "/tmp" THEN [@ EXCEPT ![p[2]] = <<>>] ELSE @,
                      !.jr.trace = Append(@, "unlink_" \o role)]
       ELSE [c EXCEPT !.thrown = TRUE,
                      !.jr.trace = Append(@, "unlink_" \o role \o "_throws")]

\* if (fs.existsSync(p)) fs.unlinkSync(p)
UnlinkIfExists(c, p, role) ==
  IF c.thrown \/ p \notin c.files THEN c ELSE UnlinkSync(c, p, role)

\* fs.statSync(p): throws ENOENT when p does not exist.
StatSync(c, p) ==
  IF c.thrown \/ p \in c.files THEN c
  ELSE [c EXCEPT !.thrown = TRUE, !.jr.trace = Append(@, "stat_throws")]

\* The job is over: the request's options and the engine's state are gone.
\* What stays is what the job did (trace), what it answered, the paths it
\* named and the crop region it found.
Ended(jr) ==
  [jr EXCEPT !.format = "", !.reqFormat = "", !.thumbnail = FALSE, !.inputOpen = FALSE, !.wrote = FALSE,
             !.duration = 0, !.seek = 0]

\* res.status(code).json({error: ...}) or res.json(metadata): the response
\* of a job that ends without a download.
Respond(c, code, err) ==
  IF c.thrown THEN c
  ELSE [c EXCEPT !.jr = Ended([@ EXCEPT !.status = code, !.error = err,
                                       !.pc = IF code = 200 THEN "done" ELSE "failed",
                                       !.trace = Append(@, "respond")])]

\* res.download(outputPath, callback): the transfer of the output starts.
Download(c) ==
  IF c.thrown THEN c
  ELSE [c EXCEPT !.jr.status = 200, !.jr.pc = "delivering",
                 !.jr.trace = Append(@, "download")]

\* ffmpeg.ffprobe(...) / command.run() / command.save(): one engine
\* subprocess is spawned; stage is the position the job waits in.
Spawn(c, stage, input) ==
  IF c.thrown THEN c
  ELSE [c EXCEPT !.jr.pc = stage,
                 !.jr.engines = @ + 1,
                 !.jr.inputOpen = (input = NoPath \/ input \in c.files),
                 !.jr.wrote = FALSE,
                 !.jr.trace = Append(@, "spawn_" \o stage)]

\* The callback returns: its effects are kept; an exception nobody caught
\* ends the process.
Commit(j, c) ==
  /\ files' = c.files
  /\ cropLog' = c.cropLog
  /\ job' = [job EXCEPT ![j] = IF c.thrown THEN [c.jr EXCEPT !.pc = "threw"] ELSE c.jr]
  /\ crashed' = c.thrown
  /\ UNCHANGED <<now, call>>

Alive(j, pc) == ~crashed /\ job[j].pc = pc

\* ------------------------------------------------------------- clock
Tick ==
  /\ ~crashed
  /\ now < MaxClock
  /\ now' = now + 1
  /\ UNCHANGED <<files, cropLog, job, crashed, call>>

\* ------------------------------------------------------------- upload
\* multer stores the uploaded file before the route's handler runs.
Upload(j, o, name) ==
  /\ Alive(j, "new")
  /\ files' = files \cup {UploadPath(now, name)}
  /\ job' = [job EXCEPT ![j] = [@ EXCEPT !.op = o, !.pc = "uploaded",
                                         !.inputPath = UploadPath(now, name)]]
  /\ UNCHANGED <<now, cropLog, crashed, call>>

\* Mutant of NoFile: the handler does not look at req.file and goes on to
\* its first engine stage.
NoFileUnchecked(j, o) ==
  /\ Alive(j, "new")
  /\ Commit(j, Spawn([Ctx(j) EXCEPT !.jr.op = o], "probing", NoPath))

\* if (!req.file) return res.status(400).json({ error: 'No file uploaded' })
NoFile(j, o) ==
  /\ Alive(j, "new")
  /\ Commit(j, Respond([Ctx(j) EXCEPT !.jr.op = o], 400, "No file uploaded"))

\* ------------------------------------------------------------- /health
\* healthCheck is built with status 'OK' and ffmpeg.getAvailableFormats
\* runs the engine's format query.
GetHealth(j) ==
  /\ Alive(j, "new")
  /\ LET c0 == [Ctx(j) EXCEPT !.jr.op = "health", !.jr.health = "OK"]
     IN Commit(j, Spawn(c0, "checking", NoPath))

\* Mutant of HealthChecked: a failed format query is answered with the
\* status code of a healthy service.
HealthCheckedAlways200(j, err) ==
  /\ Alive(j, "checking")
  /\ IF err
     THEN Commit(j, Respond([Event(Exited(j), "formats_failed") EXCEPT !.jr.health = "ERROR"],
                            200, ""))
     ELSE Commit(j, Respond(Event(Exited(j), "formats_ok"), 200, ""))

\* The callback of getAvailableFormats.
HealthChecked(j, err) ==
  /\ Alive(j, "checking")
  /\ IF err
     THEN Commit(j, Respond([Event(Exited(j), "formats_failed") EXCEPT !.jr.health = "ERROR"],
                            503, "engine"))
     ELSE Commit(j, Respond(Event(Exited(j), "formats_ok"), 200, ""))

\* ------------------------------------------------------------- /info
PostInfo(j) ==
  /\ Alive(j, "uploaded") /\ job[j].op = "info"
  /\ Commit(j, Spawn(Ctx(j), "probing", job[j].inputPath))

InfoProbed(j, err) ==
  /\ Alive(j, "probing") /\ job[j].op = "info"
  /\ (~err => job[j].inputOpen)
  /\ LET c1 == UnlinkSync(Exited(j), job[j].inputPath, "input")
     IN Commit(j, IF err THEN Respond(c1, 500, "engine") ELSE Respond(c1, 200, ""))

\* ------------------------------------------------------------- engine
\* The running transform subprocess creates its output file.  An engine
\* that could not open its input writes nothing, and neither does a
\* transcode to a container format the engine does not know.
EngineWrite(j) ==
  /\ Alive(j, "processing")
  /\ job[j].inputOpen /\ ~job[j].wrote
  /\ job[j].op \in {"convert", "letterbox"} => job[j].format \in EngineFormats
  /\ files' = files \cup {job[j].outputPath}
  /\ job' = [job EXCEPT ![j] = [@ EXCEPT !.wrote = TRUE]]
  /\ UNCHANGED <<now, cropLog, crashed, call>>

\* The download callback has run: the job is over.
Finish(c) ==
  IF c.thrown THEN c
  ELSE [c EXCEPT !.jr = Ended([@ EXCEPT !.pc = "done", !.trace = Append(@, "finished")])]

\* The transfer of the output ended, with or without an error.
Transferred(c, err) ==
  Event(c, IF err THEN "transfer_failed" ELSE "transfer_ok")

\* ------------------------------------------------------------- /convert
\* Mutant of PostConvert: the handler checks the format against the formats
\* the engine can write and rejects the others before any spawn.
PostConvertValidated(j, f) ==
  /\ Alive(j, "uploaded") /\ job[j].op = "convert"
  /\ LET format == FormatOr(f, "mp4")
         c1 == [Ctx(j) EXCEPT !.jr.format = format, !.jr.reqFormat = f,
                              !.jr.outputPath = ConvertOutputPath(now, format)]
     IN IF format \notin EngineFormats
        THEN Commit(j, Respond(UnlinkSync(c1, job[j].inputPath, "input"), 400, "format"))
        ELSE Commit(j, Spawn(c1, "processing", job[j].inputPath))

PostConvert(j, f) ==
  /\ Alive(j, "uploaded") /\ job[j].op = "convert"
  /\ LET format == FormatOr(f, "mp4")
         c1 == [Ctx(j) EXCEPT !.jr.format = format, !.jr.reqFormat = f,
                              !.jr.outputPath = ConvertOutputPath(now, format)]
     IN Commit(j, Spawn(c1, "processing", job[j].inputPath))

\* Mutant of ConvertEnd: the download is started before the input is deleted.
ConvertEndDeliverFirst(j) ==
  /\ Alive(j, "processing") /\ job[j].op = "convert"
  /\ job[j].wrote
  /\ LET c1 == StatSync(Exited(j), job[j].outputPath)
         c2 == Download(c1)
     IN Commit(j, UnlinkSync(c2, job[j].inputPath, "input"))

ConvertEnd(j) ==
  /\ Alive(j, "processing") /\ job[j].op = "convert"
  /\ job[j].wrote
  /\ LET c1 == UnlinkSync(Exited(j), job[j].inputPath, "input")
         c2 == StatSync(c1, job[j].outputPath)
     IN Commit(j, Download(c2))

\* Mutant of ConvertError: the error is answered before the input is deleted.
ConvertErrorRespondFirst(j) ==
  /\ Alive(j, "processing") /\ job[j].op = "convert"
  /\ LET c1 == Respond(Exited(j), 500, "engine")
     IN Commit(j, UnlinkSync(c1, job[j].inputPath, "input"))

ConvertError(j) ==
  /\ Alive(j, "processing") /\ job[j].op = "convert"
  /\ LET c1 == UnlinkSync(Exited(j), job[j].inputPath, "input")
     IN Commit(j, Respond(c1, 500, "engine"))

ConvertDownloaded(j, err) ==
  /\ Alive(j, "delivering") /\ job[j].op = "convert"
  /\ LET c1 == Transferred(Ctx(j), err)
         c2 == UnlinkSync(c1, job[j].outputPath, "output")
     IN Commit(j, Finish(c2))

\* ------------------------------------------------------------- /random-screenshot
\* Math.random() * (duration - 1) + 0.5, with Math.random() = r/4 and the
\* duration in tenths of a second: the result in fortieths of a second.
RandomTime(r, duration) == r * (duration - 10) + 20
Randoms == {0, 3}

PostScreenshot(j, f) ==
  /\ Alive(j, "uploaded") /\ job[j].op = "screenshot"
  /\ LET format == FormatOr(f, "jpg")
         c0 == [Ctx(j) EXCEPT !.jr.format = format]
     IN IF ToLowerCase(format) \notin supportedFormats
        THEN Commit(j, Respond(UnlinkSync(c0, job[j].inputPath, "input"), 400, "format"))
        ELSE Commit(j, Spawn(c0, "probing", job[j].inputPath))

ScreenshotProbed(j, err, duration, r) ==
  /\ Alive(j, "probing") /\ job[j].op = "screenshot"
  /\ (~err => job[j].inputOpen)
  /\ IF err
     THEN Commit(j, Respond(UnlinkSync(Exited(j), job[j].inputPath, "input"), 500, "engine"))
     ELSE IF duration <= 0
     THEN Commit(j, Respond(UnlinkSync(Exited(j), job[j].inputPath, "input"), 400, "duration"))
     ELSE LET c1 == [Exited(j) EXCEPT !.jr.duration = duration,
                                       !.jr.seek = RandomTime(r, duration),
                                       !.jr.outputPath = ScreenshotOutputPath(now, job[j].format)]
          IN Commit(j, Spawn(c1, "processing", job[j].inputPath))

ScreenshotEnd(j) ==
  /\ Alive(j, "processing") /\ job[j].op = "screenshot"
  /\ job[j].wrote
  /\ LET c1 == UnlinkSync(Exited(j), job[j].inputPath, "input")
         c2 == StatSync(c1, job[j].outputPath)
     IN Commit(j, Download(c2))

\* Mutant of ScreenshotError: a failed frame extraction is started again.
ScreenshotErrorRetry(j) ==
  /\ Alive(j, "processing") /\ job[j].op = "screenshot"
  /\ Commit(j, Spawn(Exited(j), "processing", job[j].inputPath))

ScreenshotError(j) ==
  /\ Alive(j, "processing") /\ job[j].op = "screenshot"
  /\ LET c1 == UnlinkSync(Exited(j), job[j].inputPath, "input")
     IN Commit(j, Respond(c1, 500, "engine"))

ScreenshotDownloaded(j, err) ==
  /\ Alive(j, "delivering") /\ job[j].op = "screenshot"
  /\ LET c1 == Transferred(Ctx(j), err)
         c2 == UnlinkSync(c1, job[j].outputPath, "output")
     IN Commit(j, Finish(c2))

\* ------------------------------------------------------------- /probe
Max(a, b) == IF a >= b THEN a ELSE b
Min(a, b) == IF a <= b THEN a ELSE b

\* Mutant of ThumbnailTime: with no time requested the candidate is always
\* the middle of the video.
ThumbnailTimeMiddle(given, time, duration) ==
  LET t == IF ~given THEN duration \div 2 ELSE time
  IN Max(1, Min(t, duration - 1))

\* thumbnailTime, in tenths of a second; given = FALSE is a request whose
\* time is undefined or null.
ThumbnailTime(given, time, duration) ==
  LET t == IF ~given THEN (IF duration > 20 THEN 10 ELSE duration \div 2) ELSE time
  IN Max(1, Min(t, duration - 1))

\* Mutant of PostProbe: the handler first stores what the url names as a
\* file of uploads/, as the upload routes do, and probes that file.
PostProbeStored(j, url, thumbnail) ==
  /\ Alive(j, "new")
  /\ LET c0 == [Ctx(j) EXCEPT !.jr.op = "probe", !.jr.thumbnail = thumbnail]
         c1 == [c0 EXCEPT !.files = @ \cup {UploadPath(now, "url")},
                          !.jr.inputPath = UploadPath(now, "url")]
     IN IF ~url
        THEN Commit(j, Respond(c0, 400, "No URL provided"))
        ELSE Commit(j, Spawn(c1, "probing", UploadPath(now, "url")))

PostProbe(j, url, thumbnail) ==
  /\ Alive(j, "new")
  /\ LET c0 == [Ctx(j) EXCEPT !.jr.op = "probe", !.jr.thumbnail = thumbnail]
     IN IF ~url
        THEN Commit(j, Respond(c0, 400, "No URL provided"))
        ELSE Commit(j, Spawn(c0, "probing", NoPath))

\* Mutant of ProbeProbed: the branch of an unsupported thumbnail format
\* answers its 400 and does not return, so the handler goes on to the
\* thumbnail extraction.
ProbeProbedNoReturn(j, err, duration, f, given, time) ==
  /\ Alive(j, "probing") /\ job[j].op = "probe"
  /\ LET format == FormatOr(f, "jpg") IN
     IF err
     THEN Commit(j, Respond(Exited(j), 500, "engine"))
     ELSE IF ~job[j].thumbnail
     THEN Commit(j, Respond(WithMetadata(Exited(j)), 200, ""))
     ELSE IF format \in NonStringFormats
     THEN Commit(j, Throws(Exited(j), "to_lower_case_throws"))
     ELSE LET c0 == IF ToLowerCase(format) \notin supportedFormats
                    THEN Respond(WithMetadata([Exited(j) EXCEPT !.jr.format = format]),
                                 400, "format")
                    ELSE Exited(j)
              c1 == [c0 EXCEPT
                       !.jr.format = format,
                       !.jr.duration = duration,
                       !.jr.seek = ThumbnailTime(given, time, duration),
                       !.jr.outputPath = ThumbnailOutputPath(now, ToLowerCase(format))]
          IN Commit(j, Spawn(c1, "processing", NoPath))

ProbeProbed(j, err, duration, f, given, time) ==
  /\ Alive(j, "probing") /\ job[j].op = "probe"
  /\ LET format == FormatOr(f, "jpg") IN
     IF err
     THEN Commit(j, Respond(Exited(j), 500, "engine"))
     ELSE IF ~job[j].thumbnail
     THEN Commit(j, Respond(WithMetadata(Exited(j)), 200, ""))
     ELSE IF format \in NonStringFormats
     THEN Commit(j, Throws(Exited(j), "to_lower_case_throws"))
     ELSE IF ToLowerCase(format) \notin supportedFormats
     THEN Commit(j, Respond(WithMetadata([Exited(j) EXCEPT !.jr.format = format]),
                            400, "format"))
     ELSE LET c1 == [Exited(j) EXCEPT
                       !.jr.format = format,
                       !.jr.duration = duration,
                       !.jr.seek = ThumbnailTime(given, time, duration),
                       !.jr.outputPath = ThumbnailOutputPath(now, ToLowerCase(format))]
          IN Commit(j, Spawn(c1, "processing", NoPath))

ThumbnailEnd(j) ==
  /\ Alive(j, "processing") /\ job[j].op = "probe"
  /\ job[j].wrote
  /\ Commit(j, Download(StatSync(Exited(j), job[j].outputPath)))

ThumbnailError(j) ==
  /\ Alive(j, "processing") /\ job[j].op = "probe"
  /\ Commit(j, Respond(WithMetadata(Exited(j)), 500, "engine"))

ThumbnailDownloaded(j, err) ==
  /\ Alive(j, "delivering") /\ job[j].op = "probe"
  /\ LET c1 == Transferred(Ctx(j), err)
         c2 == UnlinkIfExists(c1, job[j].outputPath, "output")
     IN Commit(j, Finish(c2))

\* ------------------------------------------------------------- /remove-letterbox
\* fs.appendFileSync(p, stderrLine + '\n'): creates p when it does not exist.
AppendFileSync(c, p, line) ==
  IF c.thrown THEN c
  ELSE [c EXCEPT !.files = @ \cup {p},
                 !.cropLog = [@ EXCEPT ![p[2]] = Append(@, line)],
                 !.jr.trace = Append(@, "append_log")]

\* fs.readFileSync(p, 'utf8'): throws ENOENT when p does not exist.
ReadFileSync(c, p) ==
  IF c.thrown THEN c
  ELSE IF p \in c.files
       THEN [c EXCEPT !.jr.trace = Append(@, "read_log")]
       ELSE [c EXCEPT !.thrown = TRUE, !.jr.trace = Append(@, "read_log_throws")]

\* /crop=(\d+):(\d+):(\d+):(\d+)/ matches a line: \d+ matches digits only,
\* so no number with a sign.
CropRegex(line) ==
  line.crop /\ line.w >= 0 /\ line.h >= 0 /\ line.x >= 0 /\ line.y >= 0

\* cropLog.match(/crop=(\d+):(\d+):(\d+):(\d+)/g)
cropMatches(text) == SelectSeq(text, CropRegex)

\* cropMatches[cropMatches.length - 1], destructured into width, height, x, y
lastCrop(matches) ==
  LET m == matches[Len(matches)] IN <<m.w, m.h, m.x, m.y>>

\* Mutant of PostLetterbox: the crop detector is started together with the
\* probe, without waiting for the probe to end.
PostLetterboxNoWait(j, f) ==
  /\ Alive(j, "uploaded") /\ job[j].op = "letterbox"
  /\ LET format == FormatOr(f, "mp4")
         c1 == [Ctx(j) EXCEPT !.jr.format = format, !.jr.reqFormat = f,
                              !.jr.outputPath = LetterboxOutputPath(now, format),
                              !.jr.tempOutput = TempOutputPath(now)]
         c2 == Spawn(c1, "probing", job[j].inputPath)
     IN Commit(j, Spawn(c2, "detecting", job[j].inputPath))

PostLetterbox(j, f) ==
  /\ Alive(j, "uploaded") /\ job[j].op = "letterbox"
  /\ LET format == FormatOr(f, "mp4")
         c1 == [Ctx(j) EXCEPT !.jr.format = format, !.jr.reqFormat = f,
                              !.jr.outputPath = LetterboxOutputPath(now, format)]
     IN Commit(j, Spawn(c1, "probing", job[j].inputPath))

\* Mutant of LetterboxProbed: the input is deleted as soon as it has been
\* probed, before the crop detector is started on it.
LetterboxProbedUnlinkFirst(j, err) ==
  /\ Alive(j, "probing") /\ job[j].op = "letterbox"
  /\ (~err => job[j].inputOpen)
  /\ LET c0 == UnlinkSync(Exited(j), job[j].inputPath, "input")
     IN IF err
        THEN Commit(j, Respond(c0, 500, "engine"))
        ELSE Commit(j, Spawn([c0 EXCEPT !.jr.tempOutput = TempOutputPath(now)],
                             "detecting", job[j].inputPath))

LetterboxProbed(j, err) ==
  /\ Alive(j, "probing") /\ job[j].op = "letterbox"
  /\ (~err => job[j].inputOpen)
  /\ IF err
     THEN Commit(j, Respond(UnlinkSync(Exited(j), job[j].inputPath, "input"), 500, "engine"))
     ELSE LET c1 == [Exited(j) EXCEPT !.jr.tempOutput = TempOutputPath(now)]
          IN Commit(j, Spawn(c1, "detecting", job[j].inputPath))

\* .on('stderr', ...): the detector printed a line.  An engine that could
\* not open its input prints no crop line.
Stderr(j, line) ==
  /\ Alive(j, "detecting")
  /\ (line.crop => job[j].inputOpen /\ job[j].nlines < MaxLines)
  /\ LET c1 == [Ctx(j) EXCEPT
                  !.jr.nlines = IF line.crop THEN @ + 1 ELSE @,
                  !.jr.lastOwn = IF CropRegex(line)
                                 THEN <<line.w, line.h, line.x, line.y>> ELSE @]
     IN Commit(j, IF line.crop THEN AppendFileSync(c1, job[j].tempOutput, line) ELSE c1)

\* The catch block of the detector's 'end' handler.
DetectCatch(c, jr) ==
  IF ~c.thrown THEN c
  ELSE LET c1 == UnlinkSync([c EXCEPT !.thrown = FALSE], jr.inputPath, "input")
           c2 == UnlinkIfExists(c1, jr.tempOutput, "log")
       IN Respond(c2, 500, "Failed to analyze crop detection results")

\* The try block of the detector's 'end' handler.
DetectTry(c, jr) ==
  LET c1 == ReadFileSync(c, jr.tempOutput)
      matches == cropMatches(c1.cropLog[jr.tempOutput[2]])
  IN IF c1.thrown THEN c1
     ELSE IF Len(matches) > 0
     THEN Spawn([c1 EXCEPT !.jr.crop = lastCrop(matches)], "processing", jr.inputPath)
     ELSE LET c2 == UnlinkSync(c1, jr.inputPath, "input")
              c3 == UnlinkIfExists(c2, jr.tempOutput, "log")
          IN Respond(c3, 400, "No black bars detected in the video")

DetectEnd(j) ==
  /\ Alive(j, "detecting")
  /\ job[j].inputOpen
  /\ Commit(j, DetectCatch(DetectTry(Exited(j), job[j]), job[j]))

DetectError(j) ==
  /\ Alive(j, "detecting")
  /\ LET c1 == UnlinkSync(Exited(j), job[j].inputPath, "input")
         c2 == UnlinkIfExists(c1, job[j].tempOutput, "log")
     IN Commit(j, Respond(c2, 500, "engine"))

CropEnd(j) ==
  /\ Alive(j, "processing") /\ job[j].op = "letterbox"
  /\ job[j].wrote
  /\ LET c1 == UnlinkSync(Exited(j), job[j].inputPath, "input")
         c2 == UnlinkIfExists(c1, job[j].tempOutput, "log")
         c3 == StatSync(c2, job[j].outputPath)
     IN Commit(j, Download(c3))

CropError(j) ==
  /\ Alive(j, "processing") /\ job[j].op = "letterbox"
  /\ LET c1 == UnlinkSync(Exited(j), job[j].inputPath, "input")
         c2 == UnlinkIfExists(c1, job[j].tempOutput, "log")
     IN Commit(j, Respond(c2, 500, "engine"))

CropDownloaded(j, err) ==
  /\ Alive(j, "delivering") /\ job[j].op = "letterbox"
  /\ LET c1 == Transferred(Ctx(j), err)
         c2 == UnlinkSync(c1, job[j].outputPath, "output")
     IN Commit(j, Finish(c2))

\* ------------------------------------------------------------- the server
FileOps == {"info", "convert", "screenshot", "letterbox"}

Next ==
  \/ Tick
  \/ \E j \in Jobs : GetHealth(j)
  \/ \E j \in Jobs, err \in BOOLEAN : HealthChecked(j, err)
  \/ \E j \in Jobs, o \in FileOps, n \in Names : Upload(j, o, n)
  \/ \E j \in Jobs, o \in FileOps : NoFile(j, o)
  \/ \E j \in Jobs : PostInfo(j)
  \/ \E j \in Jobs, err \in BOOLEAN : InfoProbed(j, err)
  \/ \E j \in Jobs : EngineWrite(j)
  \/ \E j \in Jobs, f \in VideoFormats : PostConvert(j, f)
  \/ \E j \in Jobs : ConvertEnd(j)
  \/ \E j \in Jobs : ConvertError(j)
  \/ \E j \in Jobs, err \in BOOLEAN : ConvertDownloaded(j, err)
  \/ \E j \in Jobs, f \in ImageFormats : PostScreenshot(j, f)
  \/ \E j \in Jobs, err \in BOOLEAN, d \in Durations, r \in Randoms : ScreenshotProbed(j, err, d, r)
  \/ \E j \in Jobs : ScreenshotEnd(j)
  \/ \E j \in Jobs : ScreenshotError(j)
  \/ \E j \in Jobs, err \in BOOLEAN : ScreenshotDownloaded(j, err)
  \/ \E j \in Jobs, url \in BOOLEAN, th \in BOOLEAN : PostProbe(j, url, th)
  \/ \E j \in Jobs, err \in BOOLEAN, d \in Durations, f \in ProbeFormats,
        g \in BOOLEAN, t \in Times : ProbeProbed(j, err, d, f, g, t)
  \/ \E j \in Jobs : ThumbnailEnd(j)
  \/ \E j \in Jobs : ThumbnailError(j)
  \/ \E j \in Jobs, err \in BOOLEAN : ThumbnailDownloaded(j, err)
  \/ \E j \in Jobs, f \in VideoFormats : PostLetterbox(j, f)
  \/ \E j \in Jobs, err \in BOOLEAN : LetterboxProbed(j, err)
  \/ \E j \in Jobs, line \in Lines : Stderr(j, line)
  \/ \E j \in Jobs : DetectEnd(j)
  \/ \E j \in Jobs : DetectError(j)
  \/ \E j \in Jobs : CropEnd(j)
  \/ \E j \in Jobs : CropError(j)
  \/ \E j \in Jobs, err \in BOOLEAN : CropDownloaded(j, err)

Spec == Init /\ [][Next]_vars

\* ------------------------------------------------------------- the server, scheduled
\* One callback of job j after its request has arrived: the route handler
\* on the stored upload, a line or the end of an engine subprocess, the end
\* of a transfer.
JobStep(j) ==
  \/ \E err \in BOOLEAN : HealthChecked(j, err)
  \/ PostInfo(j)
  \/ \E err \in BOOLEAN : InfoProbed(j, err)
  \/ EngineWrite(j)
  \/ \E f \in VideoFormats : PostConvert(j, f)
  \/ ConvertEnd(j)
  \/ ConvertError(j)
  \/ \E err \in BOOLEAN : ConvertDownloaded(j, err)
  \/ \E f \in ImageFormats : PostScreenshot(j, f)
  \/ \E err \in BOOLEAN, d \in Durations, r \in Randoms : ScreenshotProbed(j, err, d, r)
  \/ ScreenshotEnd(j)
  \/ ScreenshotError(j)
  \/ \E err \in BOOLEAN : ScreenshotDownloaded(j, err)
  \/ \E err \in BOOLEAN, d \in Durations, f \in ProbeFormats,
        g \in BOOLEAN, t \in Times : ProbeProbed(j, err, d, f, g, t)
  \/ ThumbnailEnd(j)
  \/ ThumbnailError(j)
  \/ \E err \in BOOLEAN : ThumbnailDownloaded(j, err)
  \/ \E f \in VideoFormats : PostLetterbox(j, f)
  \/ \E err \in BOOLEAN : LetterboxProbed(j, err)
  \/ \E line \in Lines : Stderr(j, line)
  \/ DetectEnd(j)
  \/ DetectError(j)
  \/ CropEnd(j)
  \/ CropError(j)
  \/ \E err \in BOOLEAN : CropDownloaded(j, err)

\* Node's event loop runs every callback that is ready, every engine
\* subprocess terminates and every transfer finishes: a job that has a
\* callback to run does not wait forever.
FairSpec == Spec /\ \A j \in Jobs : WF_vars(JobStep(j))

\* ------------------------------------------------------------- format conversion
\* The two operations that transcode to a requested container format,
\* convert and remove-letterbox, with requests that give no format ("") and
\* requests that give one the engine cannot write.
RequestFormats == {"", "mp4", "xyz"}
ConversionOps == {"convert", "letterbox"}
FormatLines == {Line(FALSE, 0, 0, 0, 0), Line(TRUE, 100, 96, 0, 2)}

FormatNext ==
  \/ Tick
  \/ \E j \in Jobs, o \in ConversionOps, n \in Names : Upload(j, o, n)
  \/ \E j \in Jobs, o \in ConversionOps : NoFile(j, o)
  \/ \E j \in Jobs : EngineWrite(j)
  \/ \E j \in Jobs, f \in RequestFormats : PostConvert(j, f)
  \/ \E j \in Jobs : ConvertEnd(j)
  \/ \E j \in Jobs : ConvertError(j)
  \/ \E j \in Jobs, err \in BOOLEAN : ConvertDownloaded(j, err)
  \/ \E j \in Jobs, f \in RequestFormats : PostLetterbox(j, f)
  \/ \E j \in Jobs, err \in BOOLEAN : LetterboxProbed(j, err)
  \/ \E j \in Jobs, line \in FormatLines : Stderr(j, line)
  \/ \E j \in Jobs : DetectEnd(j)
  \/ \E j \in Jobs : DetectError(j)
  \/ \E j \in Jobs : CropEnd(j)
  \/ \E j \in Jobs : CropError(j)
  \/ \E j \in Jobs, err \in BOOLEAN : CropDownloaded(j, err)

FormatSpec == Init /\ [][FormatNext]_vars

\* ------------------------------------------------------------- thumbnailTime, alone
\* The expression that computes thumbnailTime, evaluated once on every
\* duration and requested time of the sets below (tenths of a second; the
\* durations are even, so that duration / 2 is exact).
ThumbDurations == {0, 2, 10, 18, 20, 22, 100}
ThumbTimes == {-50, 0, 1, 5, 99, 100, 150}
\* req.body.time: undefined or null (given = FALSE), or a number
ThumbRequests ==
  {[given |-> FALSE, time |-> 0]} \cup {[given |-> TRUE, time |-> t] : t \in ThumbTimes}

ThumbInit ==
  /\ now = 1
  /\ files = {}
  /\ cropLog = [t \in 1..MaxClock |-> <<>>]
  /\ job = [j \in Jobs |-> NewJob]
  /\ crashed = FALSE
  /\ \E r \in ThumbRequests, d \in ThumbDurations :
       call = [fn |-> "thumbnailTime", given |-> r.given, time |-> r.time,
               duration |-> d, done |-> FALSE, result |-> 0]

ThumbApply ==
  /\ call.fn = "thumbnailTime" /\ ~call.done
  /\ call' = [call EXCEPT !.done = TRUE,
                          !.result = ThumbnailTime(call.given, call.time, call.duration)]
  /\ UNCHANGED <<now, files, cropLog, job, crashed>>

ThumbNext == ThumbApply

ThumbSpec == ThumbInit /\ [][ThumbNext]_vars

\* ------------------------------------------------------------- error text, alone
\* Mutant of ErrorText: every engine failure is answered with one fixed text.
ErrorTextFixed(op, stage, message) == "Internal server error"

\* The error text a handler answers when the engine subprocess of a stage
\* has failed with err.message = message.
ErrorText(op, stage, message) ==
  CASE op = "screenshot" /\ stage = "probing" -> "Failed to get video metadata: " \o message
    [] op = "screenshot" /\ stage = "processing" -> "Failed to generate screenshot: " \o message
    [] op = "probe" /\ stage = "processing" -> "Failed to generate thumbnail: " \o message
    [] op = "letterbox" /\ stage = "probing" -> "Failed to analyze video: " \o message
    [] op = "letterbox" /\ stage = "detecting" -> "Failed to detect black bars: " \o message
    [] OTHER -> message

\* The engine stages of the five operations.
EngineStages ==
  { <<"info", "probing">>, <<"convert", "processing">>,
    <<"screenshot", "probing">>, <<"screenshot", "processing">>,
    <<"probe", "probing">>, <<"probe", "processing">>,
    <<"letterbox", "probing">>, <<"letterbox", "detecting">>, <<"letterbox", "processing">> }

\* err.message of the engine
Messages ==
  { "", "ffprobe exited with code 1", "ffmpeg exited with code 1",
    "Cannot find ffmpeg", "Output format bmp is not available",
    "Failed to analyze video: x" }

ErrInit ==
  /\ now = 1
  /\ files = {}
  /\ cropLog = [t \in 1..MaxClock |-> <<>>]
  /\ job = [j \in Jobs |-> NewJob]
  /\ crashed = FALSE
  /\ \E s \in EngineStages, m \in Messages :
       call = [fn |-> "errorText", op |-> s[1], stage |-> s[2], message |-> m,
               done |-> FALSE, result |-> ""]

ErrApply ==
  /\ call.fn = "errorText" /\ ~call.done
  /\ call' = [call EXCEPT !.done = TRUE,
                          !.result = ErrorText(call.op, call.stage, call.message)]
  /\ UNCHANGED <<now, files, cropLog, job, crashed>>

ErrNext == ErrApply

ErrSpec == ErrInit /\ [][ErrNext]_vars

\* ------------------------------------------------------------- probe result, alone
\* What the ffprobe callback of /probe and /info takes from (err, metadata).
\* A value that may be undefined is a sequence: <<>> when it is undefined,
\* <<v>> when it is v.
MetaDurations == {0, 5, 10, 20, 100, 1000, 36000}
StreamLists == {<<>>, <<"video">>, <<"video", "audio">>, <<"video", "audio", "subtitle">>}
Formats == {<<>>} \cup {<<[duration |-> d]>> : d \in {<<>>} \cup {<<x>> : x \in MetaDurations}}
Metadatas == [format : Formats, streams : {<<>>} \cup {<<l>> : l \in StreamLists}]

\* x || 0
OrZero(x) == IF x = <<>> \/ x = <<0>> THEN 0 ELSE x[1]
\* metadata.format?.duration
FormatDuration(metadata) ==
  IF metadata.format = <<>> THEN <<>> ELSE metadata.format[1].duration
\* metadata.streams?.length
StreamsLength(metadata) ==
  IF metadata.streams = <<>> THEN <<>> ELSE <<Len(metadata.streams[1])>>

\* Mutant of ProbeResult: metadata without a duration is answered as an error.
ProbeResultStrict(err, metadata) ==
  IF err # <<>> \/ FormatDuration(metadata) = <<>>
  THEN [ok |-> FALSE, error |-> IF err # <<>> THEN err[1] ELSE "no duration"]
  ELSE [ok |-> TRUE, duration |-> OrZero(FormatDuration(metadata)),
        streams |-> OrZero(StreamsLength(metadata))]

\* if (err) return res.status(500).json({ error: err.message });
\* const duration = metadata.format?.duration || 0;
\* const streams = metadata.streams?.length || 0;
ProbeResult(err, metadata) ==
  IF err # <<>>
  THEN [ok |-> FALSE, error |-> err[1]]
  ELSE [ok |-> TRUE, duration |-> OrZero(FormatDuration(metadata)),
        streams |-> OrZero(StreamsLength(metadata))]

\* ffprobe calls back with an error and no metadata, or with metadata.
MetaInit ==
  /\ now = 1
  /\ files = {}
  /\ cropLog = [t \in 1..MaxClock |-> <<>>]
  /\ job = [j \in Jobs |-> NewJob]
  /\ crashed = FALSE
  /\ \/ \E m \in Messages :
          call = [fn |-> "probeResult", err |-> <<m>>,
                  metadata |-> [format |-> <<>>, streams |-> <<>>],
                  done |-> FALSE, result |-> [ok |-> FALSE, error |-> ""]]
     \/ \E md \in Metadatas :
          call = [fn |-> "probeResult", err |-> <<>>, metadata |-> md,
                  done |-> FALSE, result |-> [ok |-> FALSE, error |-> ""]]

MetaApply ==
  /\ call.fn = "probeResult" /\ ~call.done
  /\ call' = [call EXCEPT !.done = TRUE, !.result = ProbeResult(call.err, call.metadata)]
  /\ UNCHANGED <<now, files, cropLog, job, crashed>>

MetaNext == MetaApply

MetaSpec == MetaInit /\ [][MetaNext]_vars

\* ------------------------------------------------------------- frame command, alone
\* The ffmpeg command of a frame extraction (random-screenshot, probe with
\* thumbnail), built for a format that passed the allow-list.
OptionFormats ==
  { "jpg", "JPG", "Jpg", "jpeg", "JPEG", "png", "PNG", "webp", "WEBP", "WebP",
    "avif", "AVIF", "Avif" }
Seeks == {1, 10, 99}
FrameRoutes == {"screenshot", "probe"}

\* Mutant of OutputOptions: the format is compared as the request spelled it.
OutputOptionsCaseSensitive(format) ==
  IF format = "avif" THEN <<"-c:v", "libaom-av1", "-crf", "30", "-cpu-used", "8">>
  ELSE IF format = "webp" THEN <<"-c:v", "libwebp", "-quality", "80">>
  ELSE <<>>

\* The arguments of command.outputOptions([...]); <<>> when it is not called.
OutputOptions(format) ==
  IF ToLowerCase(format) = "avif"
  THEN <<"-c:v", "libaom-av1", "-crf", "30", "-cpu-used", "8">>
  ELSE IF ToLowerCase(format) = "webp"
  THEN <<"-c:v", "libwebp", "-quality", "80">>
  ELSE <<>>

\* ffmpeg(input).seekInput(time).frames(1) [.outputOptions(...)]
FrameCommand(route, seek, format) ==
  [seekInput |-> seek, frames |-> 1, outputOptions |-> OutputOptions(format)]

OptInit ==
  /\ now = 1
  /\ files = {}
  /\ cropLog = [t \in 1..MaxClock |-> <<>>]
  /\ job = [j \in Jobs |-> NewJob]
  /\ crashed = FALSE
  /\ \E r \in FrameRoutes, t \in Seeks, f \in OptionFormats :
       /\ ToLowerCase(f) \in supportedFormats
       /\ call = [fn |-> "frameCommand", route |-> r, seek |-> t, format |-> f,
                  done |-> FALSE,
                  result |-> [seekInput |-> 0, frames |-> 0, outputOptions |-> <<>>]]

OptApply ==
  /\ call.fn = "frameCommand" /\ ~call.done
  /\ call' = [call EXCEPT !.done = TRUE,
                          !.result = FrameCommand(call.route, call.seek, call.format)]
  /\ UNCHANGED <<now, files, cropLog, job, crashed>>

OptNext == OptApply

OptSpec == OptInit /\ [][OptNext]_vars

\* ------------------------------------------------------------- randomTime, alone
\* The expression that computes randomTime, evaluated once on every accepted
\* duration (tenths of a second, all positive) and every draw of
\* Math.random() (quarters: 0, 0.25, 0.5, 0.75) of the sets below; the
\* result is in fortieths of a second.
RandDurations == {1, 2, 3, 4, 5, 6, 8, 10, 11, 15, 20, 100, 600, 36000}
RandDraws == 0..3

RandInit ==
  /\ now = 1
  /\ files = {}
  /\ cropLog = [t \in 1..MaxClock |-> <<>>]
  /\ job = [j \in Jobs |-> NewJob]
  /\ crashed = FALSE
  /\ \E d \in RandDurations, r \in RandDraws :
       /\ ~(d <= 0)
       /\ call = [fn |-> "randomTime", random |-> r, duration |-> d,
                  done |-> FALSE, result |-> 0]

RandApply ==
  /\ call.fn = "randomTime" /\ ~call.done
  /\ call' = [call EXCEPT !.done = TRUE, !.result = RandomTime(call.random, call.duration)]
  /\ UNCHANGED <<now, files, cropLog, job, crashed>>

RandNext == RandApply

RandSpec == RandInit /\ [][RandNext]_vars

\* ------------------------------------------------------------- the three copies
\* The handlers of info, convert and random-screenshot as each copy of the
\* server has them, run on one request that is alone in the server: the
\* first copy (src/unnamed/part_000 lines 1-155), src/index.js, and the last
\* copy (src/unnamed/part_000 lines 156-722).  A run is the chain of the
\* callbacks of the request, under the given outcomes of the engine and of
\* the transfer.
Copies == {"first", "index", "last"}
SharedOps == {"info", "convert", "screenshot"}
CopyFormats == {"", "jpg", "AVIF", "bmp", "mp4"}
CopyDurations == {0, 100}

\* The request as its route handler gets it, after multer has stored the file.
CopyRequest(op, file) ==
  [ files |-> IF file THEN {UploadPath(1, "a.mp4")} ELSE {},
    cropLog |-> [t \in 1..MaxClock |-> <<>>],
    jr |-> [NewJob EXCEPT !.op = op,
                          !.inputPath = IF file THEN UploadPath(1, "a.mp4") ELSE NoPath],
    thrown |-> FALSE ]

\* The engine subprocess of the context has exited.
CopyExited(c) == [c EXCEPT !.jr.engines = @ - 1]

\* The transform subprocess of the context has written its output.
CopyWritten(c) == [c EXCEPT !.files = @ \cup {c.jr.outputPath}, !.jr.wrote = TRUE]

\* A failure branch: the input is deleted, then the error is answered.
CopyFail(c, code, err) == Respond(UnlinkSync(c, c.jr.inputPath, "input"), code, err)

\* The 'end' handler of a transform and the callback of its download.  The
\* first copy does not inspect the output before it sends it.
CopyDeliver(copy, c, transferErr) ==
  LET c1 == UnlinkSync(CopyExited(c), c.jr.inputPath, "input")
      c2 == IF copy = "first" THEN c1 ELSE StatSync(c1, c.jr.outputPath)
      c3 == Transferred(Download(c2), transferErr)
  IN Finish(UnlinkSync(c3, c.jr.outputPath, "output"))

CopyInfo(copy, file, o) ==
  LET c0 == CopyRequest("info", file) IN
  IF ~file THEN Respond(c0, 400, "No file uploaded")
  ELSE LET c1 == Spawn(c0, "probing", c0.jr.inputPath)
           c2 == UnlinkSync(CopyExited(c1), c0.jr.inputPath, "input")
       IN IF o.probeErr THEN Respond(c2, 500, "engine") ELSE Respond(c2, 200, "")

CopyConvert(copy, file, f, o) ==
  LET c0 == CopyRequest("convert", file)
      format == FormatOr(f, "mp4")
      c1 == Spawn([c0 EXCEPT !.jr.format = format,
                             !.jr.outputPath = ConvertOutputPath(1, format)],
                  "processing", c0.jr.inputPath)
  IN IF ~file THEN Respond(c0, 400, "No file uploaded")
     ELSE IF o.engineErr \/ format \notin EngineFormats
     THEN CopyFail(CopyExited(c1), 500, "engine")
     ELSE CopyDeliver(copy, CopyWritten(c1), o.transferErr)

\* The first copy reads no format: it checks none and always writes a jpg.
CopyScreenshot(copy, file, f, o) ==
  LET format == IF copy = "first" THEN "jpg" ELSE FormatOr(f, "jpg")
      c0 == [CopyRequest("screenshot", file) EXCEPT !.jr.format = format]
      c1 == Spawn(c0, "probing", c0.jr.inputPath)
      c2 == Spawn([CopyExited(c1) EXCEPT
                     !.jr.duration = o.duration,
                     !.jr.seek = RandomTime(o.random, o.duration),
                     !.jr.outputPath = ScreenshotOutputPath(1, format)],
                  "processing", c0.jr.inputPath)
  IN IF ~file THEN Respond(c0, 400, "No file uploaded")
     ELSE IF copy # "first" /\ ToLowerCase(format) \notin supportedFormats
     THEN CopyFail(c0, 400, "format")
     ELSE IF o.probeErr THEN CopyFail(CopyExited(c1), 500, "engine")
     ELSE IF o.duration <= 0 THEN CopyFail(CopyExited(c1), 400, "duration")
     ELSE IF o.engineErr THEN CopyFail(CopyExited(c2), 500, "engine")
     ELSE CopyDeliver(copy, CopyWritten(c2), o.transferErr)

\* What the caller and the filesystem are left with after the run.
Serve(copy, op, file, f, o) ==
  LET c == CASE op = "info" -> CopyInfo(copy, file, o)
             [] op = "convert" -> CopyConvert(copy, file, f, o)
             [] op = "screenshot" -> CopyScreenshot(copy, file, f, o)
  IN [status |-> c.jr.status, files |-> c.files, thrown |-> c.thrown]

CopyInit ==
  /\ now = 1
  /\ files = {}
  /\ cropLog = [t \in 1..MaxClock |-> <<>>]
  /\ job = [j \in Jobs |-> NewJob]
  /\ crashed = FALSE
  /\ \E op \in SharedOps, file \in BOOLEAN, f \in CopyFormats, pe \in BOOLEAN,
        d \in CopyDurations, r \in Randoms, ee \in BOOLEAN, te \in BOOLEAN :
       call = [fn |-> "serve", op |-> op, file |-> file, format |-> f,
               outcomes |-> [probeErr |-> pe, duration |-> d, random |-> r,
                             engineErr |-> ee, transferErr |-> te],
               done |-> FALSE,
               result |-> [v \in Copies |-> [status |-> 0, files |-> {}, thrown |-> FALSE]]]

CopyApply ==
  /\ call.fn = "serve" /\ ~call.done
  /\ call' = [call EXCEPT
                !.done = TRUE,
                !.result = [v \in Copies |->
                              Serve(v, call.op, call.file, call.format, call.outcomes)]]
  /\ UNCHANGED <<now, files, cropLog, job, crashed>>

CopyNext == CopyApply

CopySpec == CopyInit /\ [][CopyNext]_vars

\* ------------------------------------------------------------- properties
Has(tr, e) == \E i \in DOMAIN tr : tr[i] = e
Count(tr, e) == Cardinality({i \in DOMAIN tr : tr[i] = e})
First(tr, e) == CHOOSE i \in DOMAIN tr : tr[i] = e /\ \A k \in 1..(i - 1) : tr[k] # e

\* The job has ended: it answered (done, failed) or its callback threw.
JobOver(j) == job[j].pc \in {"done", "failed", "threw"}
\* The job is between its arrival and its end.
JobLive(j) == job[j].pc \notin {"new", "done", "failed", "threw"}
\* No other job names the path p in the same role as job j.
OwnInput(j) == \A k \in Jobs \ {j} : job[k].inputPath # job[j].inputPath
OwnOutput(j) == \A k \in Jobs \ {j} : job[k].outputPath # job[j].outputPath
OwnLog(j) == \A k \in Jobs \ {j} : job[k].tempOutput # job[j].tempOutput

\* C1: once a job has ended, no file exists at its output path, and the
\* output was handed to the caller at most once.  Stated for a job whose
\* output path no other job names, so that a file found there is its own.
C1_NoOutputAfterJob ==
  \A j \in Jobs :
    (JobOver(j) /\ job[j].outputPath # NoPath /\ OwnOutput(j))
      => (job[j].outputPath \notin files /\ Count(job[j].trace, "download") <= 1)

\* C2: a job that received a file has, when it ends, deleted that file
\* exactly once: one unlink of its input succeeded, and none was attempted
\* on an input already deleted.
C2_InputDeletedOnce ==
  \A j \in Jobs :
    (JobOver(j) /\ job[j].inputPath # NoPath)
      => /\ Count(job[j].trace, "unlink_input") = 1
         /\ ~Has(job[j].trace, "unlink_input_throws")

\* C3: when the detector ended normally and none of its lines carried a
\* crop candidate, the job answers 400 'no black bars detected' and spawns
\* no crop transcode.  Stated for a job that shares no path with another.
DetectorEnded(j) ==
  Has(job[j].trace, "read_log") \/ Has(job[j].trace, "read_log_throws")

C3_NoCandidateIs400 ==
  \A j \in Jobs :
    (DetectorEnded(j) /\ job[j].lastOwn = NoCrop /\ OwnInput(j) /\ OwnLog(j))
      => /\ job[j].status = 400
         /\ job[j].error = "No black bars detected in the video"
         /\ ~Has(job[j].trace, "spawn_processing")

\* C4: the crop region given to the crop transcode is the last candidate of
\* the job's own detector run, the four integers unchanged.
C4_LastCandidateWins ==
  \A j \in Jobs :
    (job[j].op = "letterbox" /\ Has(job[j].trace, "spawn_processing"))
      => (job[j].lastOwn # NoCrop /\ job[j].crop = job[j].lastOwn)

\* C5: no crop transcode is spawned with a region whose width or height is
\* not positive; such a detection ends like an empty one, with the 400.
C5_NonPositiveRegionRejected ==
  \A j \in Jobs :
    (DetectorEnded(j) /\ job[j].lastOwn # NoCrop
       /\ (job[j].lastOwn[1] <= 0 \/ job[j].lastOwn[2] <= 0) /\ OwnInput(j) /\ OwnLog(j))
      => /\ job[j].status = 400
         /\ ~Has(job[j].trace, "spawn_processing")

\* C6: when a remove-letterbox job that started crop detection has ended,
\* its diagnostic log no longer exists.  Stated for a job whose log path no
\* other job names, so that a log found there is its own.
C6_NoLogAfterJob ==
  \A j \in Jobs :
    (JobOver(j) /\ job[j].tempOutput # NoPath /\ OwnLog(j))
      => job[j].tempOutput \notin files

\* C7: a job's diagnostic log is used by that job only: two jobs that are
\* detecting (on different inputs) never name the same log, the region a
\* job finds is the last candidate of its own detector, and a job whose
\* detector printed a crop line never fails reading its log.
C7_LogIsPrivate ==
  \A j \in Jobs :
    /\ \A k \in Jobs \ {j} :
         (job[j].pc = "detecting" /\ job[k].pc = "detecting"
            /\ job[j].inputPath # job[k].inputPath)
           => job[j].tempOutput # job[k].tempOutput
    /\ Has(job[j].trace, "spawn_processing") /\ job[j].op = "letterbox"
         => job[j].crop = job[j].lastOwn
    /\ job[j].nlines > 0 => ~Has(job[j].trace, "read_log_throws")

\* C8: two artifacts of different jobs that are alive at the same time
\* have distinct paths.
Artifacts(j) ==
  ({job[j].inputPath, job[j].outputPath, job[j].tempOutput} \ {NoPath}) \cap files

C8_DistinctPaths ==
  \A j \in Jobs : \A k \in Jobs \ {j} :
    (JobLive(j) /\ JobLive(k)) => Artifacts(j) \cap Artifacts(k) = {}

\* C9 as claimed: on a job that delivers an output, the download is started
\* first and the input is deleted only then.
C9_DeliverThenCleanup ==
  \A j \in Jobs :
    (Has(job[j].trace, "download") /\ Has(job[j].trace, "unlink_input"))
      => First(job[j].trace, "download") < First(job[j].trace, "unlink_input")

\* C9 as amended: on a job that delivers an output of an uploaded file, the
\* input is deleted, and the diagnostic log if it exists, before the
\* download is started; after the start of the download the job deletes
\* neither.
CleanupEvents == {"unlink_input", "unlink_input_throws", "unlink_log", "unlink_log_throws"}

C9_CleanupThenDeliver ==
  \A j \in Jobs :
    (Has(job[j].trace, "download") /\ job[j].op \in FileOps)
      => /\ Has(job[j].trace, "unlink_input")
         /\ First(job[j].trace, "unlink_input") < First(job[j].trace, "download")
         /\ \A i \in DOMAIN job[j].trace :
              job[j].trace[i] \in CleanupEvents => i < First(job[j].trace, "download")

\* C9, witness: a remove-letterbox job is delivering its output after it
\* deleted its input and its diagnostic log.
C9_Witness ==
  \E j \in Jobs :
    /\ job[j].op = "letterbox" /\ job[j].pc = "delivering"
    /\ Has(job[j].trace, "unlink_input") /\ Has(job[j].trace, "unlink_log")

\* C10: an output that is being transferred exists until the transfer has
\* finished, and a job whose transfer has finished (with or without error)
\* has then deleted its output.
C10_OutputDeletedAfterTransfer ==
  \A j \in Jobs :
    /\ job[j].pc = "delivering" => job[j].outputPath \in files
    /\ (JobOver(j) /\ Has(job[j].trace, "download"))
         => /\ Has(job[j].trace, "unlink_output")
            /\ \E i \in DOMAIN job[j].trace :
                 /\ job[j].trace[i] \in {"transfer_ok", "transfer_failed"}
                 /\ i < First(job[j].trace, "unlink_output")

\* C11: on every failure path, the artifacts the job still owns (uploaded
\* input, diagnostic log) are deleted before the error response is sent:
\* in the step that sends an error response, the response is the last thing
\* the callback does, the job's input was unlinked earlier, and neither the
\* input nor the diagnostic log exists when the response goes out.
C11_CleanupBeforeError ==
  [][\A j \in Jobs :
       (job[j].pc # "failed" /\ job'[j].pc = "failed")
         => /\ job'[j].trace[Len(job'[j].trace)] = "respond"
            /\ job'[j].inputPath # NoPath => Has(job'[j].trace, "unlink_input")
            /\ job'[j].inputPath \notin files'
            /\ job'[j].tempOutput \notin files']_vars

\* C11, witness: a remove-letterbox job has answered an error after it
\* deleted its input and the diagnostic log its detector had written.
C11_Witness ==
  \E j \in Jobs :
    /\ job[j].op = "letterbox" /\ job[j].pc = "failed"
    /\ Has(job[j].trace, "unlink_input") /\ Has(job[j].trace, "unlink_log")

\* C12: within one job at most one engine subprocess is running at any
\* time: whenever a stage is spawned, the subprocess of the stage before
\* it has exited.
C12_OneEngineAtATime ==
  \A j \in Jobs : job[j].engines \in {0, 1}

\* C12, witness: the crop transcode, third stage of a remove-letterbox job,
\* is running, and it is the job's only engine subprocess.
C12_Witness ==
  \E j \in Jobs :
    /\ job[j].op = "letterbox" /\ job[j].pc = "processing" /\ job[j].engines = 1
    /\ Has(job[j].trace, "spawn_probing") /\ Has(job[j].trace, "spawn_detecting")

\* C13: a frame-extraction request (random-screenshot, probe with
\* thumbnail) that is rejected because its image format is outside the
\* allow-list has spawned no engine subprocess, neither probe nor transcode.
C13_UnsupportedFormatNoSpawn ==
  \A j \in Jobs :
    (job[j].op \in {"screenshot", "probe"} /\ job[j].status = 400 /\ job[j].error = "format")
      => /\ ~Has(job[j].trace, "spawn_probing")
         /\ ~Has(job[j].trace, "spawn_processing")

\* C14: no frame extraction (random-screenshot, probe with thumbnail) is
\* running for a job whose probed duration is absent, zero or negative:
\* such a request was ended with a validation error instead.
C14_InvalidDurationNoExtraction ==
  \A j \in Jobs :
    (job[j].op \in {"screenshot", "probe"} /\ job[j].pc = "processing")
      => job[j].duration > 0

\* C15: for every duration and every requested time, given or absent, the
\* timestamp of the thumbnail lies in [0.1, duration - 0.1].
C15_ThumbnailTimeInRange ==
  (call.fn = "thumbnailTime" /\ call.done)
    => (1 <= call.result /\ call.result <= call.duration - 1)

\* C16: the thumbnail timestamp is the candidate (the requested time, or,
\* with no time requested, 1 when duration > 2 and duration / 2 otherwise)
\* lowered to at most duration - 0.1 and raised to at least 0.1; with the
\* four examples of the claim.
C16_Candidate ==
  IF call.given THEN call.time
  ELSE IF call.duration > 20 THEN 10 ELSE call.duration \div 2

C16_ThumbnailTimeAsSpecified ==
  (call.fn = "thumbnailTime" /\ call.done)
    => LET lowered == IF C16_Candidate > call.duration - 1
                      THEN call.duration - 1 ELSE C16_Candidate
           raised == IF lowered < 1 THEN 1 ELSE lowered
       IN /\ call.result = raised
          /\ (call.duration = 100 /\ ~call.given) => call.result = 10
          /\ (call.duration = 100 /\ call.given /\ call.time = 150) => call.result = 99
          /\ (call.duration = 100 /\ call.given /\ call.time = -50) => call.result = 1
          /\ (call.duration = 10 /\ ~call.given) => call.result = 5

\* C16, witness: the requested time 15 was evaluated on a duration of 10
\* seconds and gave 9.9.
C16_Witness ==
  /\ call.fn = "thumbnailTime" /\ call.done
  /\ call.duration = 100 /\ call.given /\ call.time = 150 /\ call.result = 99

\* C17: the class of the response follows the kind of the error: a
\* validation error and a detection that found no crop candidate are
\* answered 4xx, an engine failure and a failure to read the diagnostic log
\* 5xx, and a job without failure 2xx.  The detection clause is stated for
\* a job that shares no path with another.
ValidationErrors ==
  {"No file uploaded", "No URL provided", "format", "duration",
   "No black bars detected in the video"}
ServerErrors == {"engine", "Failed to analyze crop detection results"}

C17_ResponseClassByErrorKind ==
  \A j \in Jobs :
    (job[j].pc \in {"delivering", "done", "failed"})
      => /\ job[j].error \in ValidationErrors => job[j].status \in 400..499
         /\ job[j].error \in ServerErrors => job[j].status \in 500..599
         /\ job[j].error = "" => job[j].status \in 200..299
         /\ (DetectorEnded(j) /\ job[j].lastOwn = NoCrop /\ OwnInput(j) /\ OwnLog(j))
              => job[j].status \in 400..499

\* C18: a request with no input (no uploaded file; no url for probe) ends
\* at once with a 400: the response is the only thing the job does, it
\* spawns no engine, names no output and no diagnostic log, and the step
\* leaves the filesystem as it was.
NoInput(jr) ==
  \/ jr.op \in FileOps /\ jr.inputPath = NoPath
  \/ jr.op = "probe" /\ jr.error = "No URL provided"

C18_NoInputIs400 ==
  [][\A j \in Jobs :
       (~NoInput(job[j]) /\ NoInput(job'[j]))
         => /\ job'[j].status = 400 /\ job'[j].pc = "failed"
            /\ job'[j].trace = <<"respond">>
            /\ job'[j].outputPath = NoPath /\ job'[j].tempOutput = NoPath
            /\ files' = files /\ cropLog' = cropLog]_vars

\* C18, witness: one request without a file and one probe without a url
\* have been answered 400.
C18_Witness ==
  \E j \in Jobs, k \in Jobs :
    /\ job[j].op \in FileOps /\ job[j].error = "No file uploaded" /\ job[j].status = 400
    /\ job[k].op = "probe" /\ job[k].error = "No URL provided" /\ job[k].status = 400

\* C19: no stage is retried.  A job spawns each of its stages (probe, crop
\* detection, transform) at most once, hence at most 1 engine subprocess
\* for info and convert, 2 for random-screenshot and probe, 3 for
\* remove-letterbox.
SpawnEvents == {"spawn_probing", "spawn_detecting", "spawn_processing"}
Spawns(j) == Cardinality({i \in DOMAIN job[j].trace : job[j].trace[i] \in SpawnEvents})
MaxSpawns(o) ==
  IF o \in {"info", "convert"} THEN 1
  ELSE IF o \in {"screenshot", "probe"} THEN 2
  ELSE IF o = "letterbox" THEN 3 ELSE 0

C19_NoStageRetried ==
  \A j \in Jobs :
    /\ \A e \in SpawnEvents : Count(job[j].trace, e) <= 1
    /\ Spawns(j) <= MaxSpawns(job[j].op)

\* C19, witness: a remove-letterbox job has ended after its three stages,
\* and a random-screenshot job after a frame extraction that failed.
C19_Witness ==
  \E j \in Jobs, k \in Jobs :
    /\ job[j].op = "letterbox" /\ JobOver(j) /\ Spawns(j) = 3
    /\ job[k].op = "screenshot" /\ job[k].pc = "failed" /\ job[k].error = "engine"
    /\ Spawns(k) = 2

\* C20: cleanup of an artifact that is already absent is a no-op: no
\* deletion of an input, an output or a diagnostic log raises an error, so
\* no job ends in an exception thrown by its cleanup.
CleanupThrows == {"unlink_input_throws", "unlink_output_throws", "unlink_log_throws"}

C20_AbsentCleanupIsNoOp ==
  \A j \in Jobs :
    /\ \A e \in CleanupThrows : ~Has(job[j].trace, e)
    /\ job[j].pc = "threw" =>
         job[j].trace[Len(job[j].trace)] \notin CleanupThrows

\* C21: a filesystem error raised while an artifact is deleted or the
\* output is inspected never masks the outcome of the stage that has ended:
\* a job whose callback threw such an error after an engine stage had
\* ended had already started to answer
\* (its download was started), so the caller still gets the success output
\* or the stage's error.
FsThrows == CleanupThrows \cup {"stat_throws"}

C21_FsErrorNeverMasksOutcome ==
  \A j \in Jobs :
    (job[j].pc = "threw" /\ Spawns(j) > 0
       /\ job[j].trace[Len(job[j].trace)] \in FsThrows)
      => (Has(job[j].trace, "download") \/ Has(job[j].trace, "respond"))

\* C22: no artifact of a job is used after the job has cleaned it up: once
\* the job has deleted its input it starts no engine and has none running,
\* and it does not read its diagnostic log after it deleted it.
Last(tr, e) == CHOOSE i \in DOMAIN tr : tr[i] = e /\ \A k \in (i + 1)..Len(tr) : tr[k] # e

C22_NoUseAfterCleanup ==
  \A j \in Jobs :
    /\ Has(job[j].trace, "unlink_input")
         => /\ job[j].engines = 0
            /\ \A i \in DOMAIN job[j].trace :
                 job[j].trace[i] \in SpawnEvents => i < First(job[j].trace, "unlink_input")
    /\ (Has(job[j].trace, "unlink_log") /\ Has(job[j].trace, "read_log"))
         => Last(job[j].trace, "read_log") < First(job[j].trace, "unlink_log")

\* C22, witness: a remove-letterbox job has ended after it ran its three
\* stages, read its diagnostic log and deleted both the log and its input.
C22_Witness ==
  \E j \in Jobs :
    /\ job[j].op = "letterbox" /\ job[j].pc = "done" /\ Spawns(j) = 3
    /\ Has(job[j].trace, "read_log") /\ Has(job[j].trace, "unlink_log")
    /\ Has(job[j].trace, "unlink_input")

\* C23: an output is delivered only after the subprocess that writes it
\* has ended successfully: while a job's output is being transferred, the
\* job's engine has written it and has exited, and no engine (of a job with
\* another input) is running that writes the file at that path; a job that
\* failed has delivered no output.
C23_DeliverOnlyFinishedOutput ==
  \A j \in Jobs :
    /\ job[j].pc = "delivering"
         => /\ job[j].wrote /\ job[j].engines = 0
            /\ \A k \in Jobs \ {j} :
                 (job[k].outputPath = job[j].outputPath
                    /\ job[k].inputPath # job[j].inputPath)
                   => job[k].pc # "processing"
    /\ job[j].pc = "failed" => ~Has(job[j].trace, "download")

\* C24: when every engine subprocess terminates and every transfer
\* finishes, every job that has arrived eventually reaches Done or Failed.
C24_EveryJobEnds ==
  \A j \in Jobs :
    (job[j].pc # "new") ~> (job[j].pc \in {"done", "failed"})

\* C25: a remove-letterbox job only moves forward along Received,
\* Validated, Probing, Detecting, Processing, Delivering, Done, one state at
\* a time, with Failed as the only other exit; it enters Processing only
\* from Detecting and with a candidate of its own detector; and nothing
\* changes in a job that is Done or Failed.
Rank(pc) ==
  CASE pc = "new" -> 0 [] pc = "uploaded" -> 1 [] pc = "probing" -> 2
    [] pc = "detecting" -> 3 [] pc = "processing" -> 4 [] pc = "delivering" -> 5
    [] pc = "done" -> 6 [] OTHER -> 7

C25_LetterboxMovesForward ==
  [][\A j \in Jobs :
       /\ (job'[j].op = "letterbox" /\ job'[j].pc # job[j].pc)
            => /\ \/ job'[j].pc = "failed" /\ job[j].pc \notin {"done", "failed"}
                  \/ Rank(job'[j].pc) <= 6 /\ Rank(job'[j].pc) = Rank(job[j].pc) + 1
               /\ job'[j].pc = "processing"
                    => (job[j].pc = "detecting" /\ job'[j].lastOwn # NoCrop)
       /\ (job[j].op = "letterbox" /\ job[j].pc \in {"done", "failed"})
            => job'[j] = job[j]]_vars

\* C26 as claimed: for every operation and every stage, the error text of
\* the response to an engine failure equals the message of the engine error.
C26_ErrorTextIsMessage ==
  (call.fn = "errorText" /\ call.done) => call.result = call.message

\* C26 as amended: the error text of the response ends with the message of
\* the engine error, unchanged; it is the message alone for info, convert,
\* the metadata probe of probe and the crop transcode, and the message after
\* the fixed prefix of the stage for the other stages.
PlainStages ==
  { <<"info", "probing">>, <<"convert", "processing">>, <<"probe", "probing">>,
    <<"letterbox", "processing">> }
StagePrefix ==
  [ s \in EngineStages \ PlainStages |->
      CASE s = <<"screenshot", "probing">> -> "Failed to get video metadata: "
        [] s = <<"screenshot", "processing">> -> "Failed to generate screenshot: "
        [] s = <<"probe", "processing">> -> "Failed to generate thumbnail: "
        [] s = <<"letterbox", "probing">> -> "Failed to analyze video: "
        [] s = <<"letterbox", "detecting">> -> "Failed to detect black bars: " ]

C26_ErrorTextEndsWithMessage ==
  (call.fn = "errorText" /\ call.done)
    => LET s == <<call.op, call.stage>>
       IN IF s \in PlainStages
          THEN call.result = call.message
          ELSE call.result = StagePrefix[s] \o call.message

\* C26, witness: a failure of the crop detector was answered with the
\* engine's message after the prefix of the stage.
C26_Witness ==
  /\ call.fn = "errorText" /\ call.done
  /\ call.op = "letterbox" /\ call.stage = "detecting"
  /\ call.message = "ffmpeg exited with code 1"
  /\ call.result = "Failed to detect black bars: ffmpeg exited with code 1"

AvifSpellings == {"avif", "AVIF", "Avif"}
WebpSpellings == {"webp", "WEBP", "WebP"}

C28_OptionsByFormat ==
  (call.fn = "frameCommand" /\ call.done)
    => /\ call.format \in AvifSpellings
            => call.result.outputOptions
                 = <<"-c:v", "libaom-av1", "-crf", "30", "-cpu-used", "8">>
       /\ call.format \in WebpSpellings
            => call.result.outputOptions = <<"-c:v", "libwebp", "-quality", "80">>
       /\ call.format \notin (AvifSpellings \cup WebpSpellings)
            => call.result.outputOptions = <<>>

\* C28, witness: a thumbnail was requested as AVIF, in capitals, and its
\* command got the options of the AV1 encoder.
C28_Witness ==
  /\ call.fn = "frameCommand" /\ call.done
  /\ call.route = "probe" /\ call.format = "AVIF"
  /\ call.result.outputOptions = <<"-c:v", "libaom-av1", "-crf", "30", "-cpu-used", "8">>

\* C29: a format conversion (convert, and the crop transcode of
\* remove-letterbox) takes 'mp4' when the request gives no format, checks
\* the format against no list, and runs the engine with the format as
\* requested: the route handler always goes on to its first engine stage,
\* the transcode is spawned on the requested format, and a format the
\* engine cannot write is answered, when it is answered, as an engine
\* failure (500) after the spawn, never as a validation error.
C29_FormatNotValidated ==
  [][\A j \in Jobs :
       /\ (job[j].pc = "uploaded" /\ job'[j].pc # "uploaded"
             /\ job'[j].op \in ConversionOps)
            => /\ job'[j].pc \in {"probing", "processing"}
               /\ job'[j].format = IF job'[j].reqFormat = "" THEN "mp4"
                                                            ELSE job'[j].reqFormat
               /\ job'[j].outputPath[4] = job'[j].format
       /\ job'[j].op \in ConversionOps => job'[j].error # "format"
       /\ (job[j].op \in ConversionOps /\ job[j].pc = "processing"
             /\ job[j].format \notin EngineFormats /\ job'[j].pc # "processing")
            => /\ job'[j].pc \in {"failed", "threw"}
               /\ job'[j].pc = "failed"
                    => (job'[j].status = 500 /\ job'[j].error = "engine")
               /\ Has(job'[j].trace, "spawn_processing")
               /\ ~Has(job'[j].trace, "download")]_vars

\* C29, witness: a convert request for a format the engine cannot write has
\* been answered 500 after its transcode was spawned, and a request that
\* gave no format is being transcoded to mp4.
C29_Witness ==
  \E j \in Jobs, k \in Jobs :
    /\ job[j].op = "convert" /\ job[j].pc = "failed" /\ job[j].status = 500
    /\ job[j].outputPath[4] = "xyz" /\ Has(job[j].trace, "spawn_processing")
    /\ job[k].op \in ConversionOps /\ job[k].pc = "processing"
    /\ job[k].reqFormat = "" /\ job[k].format = "mp4"

\* C30: GET /health sends exactly one response per request, 200 with
\* status 'OK' when the engine's format query succeeded and 503 with status
\* 'ERROR' when it failed, and no step of the request creates or deletes a
\* file.
C30_HealthAnswersOnce ==
  [][\A j \in Jobs :
       (job'[j].op = "health" /\ job'[j] # job[j])
         => /\ files' = files /\ cropLog' = cropLog
            /\ job'[j].pc = "checking" => Count(job'[j].trace, "respond") = 0
            /\ job'[j].pc # "checking"
                 => /\ Count(job'[j].trace, "respond") = 1
                    /\ Has(job'[j].trace, "formats_ok")
                         => (job'[j].status = 200 /\ job'[j].health = "OK")
                    /\ Has(job'[j].trace, "formats_failed")
                         => (job'[j].status = 503 /\ job'[j].health = "ERROR")
                    /\ Has(job'[j].trace, "formats_ok") # Has(job'[j].trace, "formats_failed")]_vars

\* C30, witness: one health request was answered 200 'OK' and another one
\* 503 'ERROR'.
C30_Witness ==
  \E j \in Jobs, k \in Jobs :
    /\ job[j].op = "health" /\ job[j].status = 200 /\ job[j].health = "OK"
    /\ job[k].op = "health" /\ job[k].status = 503 /\ job[k].health = "ERROR"

\* C31: every request receives at most one response, a success payload (a
\* JSON body or the download of the output) or a structured error, never
\* both and never two; the response is the last thing a job does but for
\* the transfer of its output and the deletion of that output, and after
\* the response of a failed job the job spawns no subprocess and has none
\* running.
ResponseEvents == {"respond", "download"}
Responses(j) ==
  Cardinality({i \in DOMAIN job[j].trace : job[j].trace[i] \in ResponseEvents})
AfterResponse(j) ==
  {i \in DOMAIN job[j].trace :
     \E k \in 1..(i - 1) : job[j].trace[k] \in ResponseEvents}
AllSpawnEvents == SpawnEvents \cup {"spawn_checking"}

C31_AtMostOneResponse ==
  \A j \in Jobs :
    /\ Responses(j) <= 1
    /\ job[j].pc \in {"done", "failed", "delivering"} => Responses(j) = 1
    /\ job[j].pc = "failed"
         => /\ job[j].status >= 400 /\ ~Has(job[j].trace, "download")
            /\ job[j].engines = 0
    /\ Has(job[j].trace, "download") => job[j].status = 200
    /\ \A i \in AfterResponse(j) : job[j].trace[i] \notin AllSpawnEvents
    /\ Has(job[j].trace, "respond") => AfterResponse(j) = {}

\* C31, witness: a remove-letterbox job has answered the error of its crop
\* detector after two stages, and a probe with thumbnail has delivered its
\* output and ended.
C31_Witness ==
  \E j \in Jobs, k \in Jobs :
    /\ job[j].op = "letterbox" /\ job[j].pc = "failed" /\ job[j].status = 500
    /\ Has(job[j].trace, "spawn_detecting") /\ Responses(j) = 1
    /\ job[k].op = "probe" /\ job[k].pc = "done" /\ Has(job[k].trace, "download")
    /\ Responses(k) = 1

\* C32: for every accepted duration and every random draw, the seek
\* timestamp of random-screenshot lies inside the video, after its very
\* beginning and before its very end (the result is in fortieths of a
\* second, the duration in tenths).
C32_RandomTimeInsideVideo ==
  (call.fn = "randomTime" /\ call.done)
    => (0 < call.result /\ call.result < 4 * call.duration)

\* C33: the three copies of the service are equivalent on info, convert
\* and random-screenshot: for the same request and the same outcomes of the
\* engine and of the transfer, they answer the same status and leave the
\* same set of files behind.
C33_CopiesEquivalent ==
  (call.fn = "serve" /\ call.done)
    => \A v \in Copies, w \in Copies :
         /\ call.result[v].status = call.result[w].status
         /\ call.result[v].files = call.result[w].files

\* C34: a probe request without the thumbnail flag leaves the filesystem
\* unchanged and spawns exactly one subprocess, the probe: every step of
\* such a request that has a url keeps every file and every diagnostic log
\* as it was, the request names no input, output or log path, its first
\* step spawns the probe, and its second and last step answers (200 when
\* the probe succeeded, 500 when it failed) without another spawn.
C34_PlainProbeKeepsFiles ==
  [][\A j \in Jobs :
       (job'[j] # job[j] /\ job'[j].op = "probe"
          /\ ~job[j].thumbnail /\ ~job'[j].thumbnail
          /\ job'[j].error # "No URL provided")
         => /\ files' = files /\ cropLog' = cropLog
            /\ job'[j].inputPath = NoPath /\ job'[j].outputPath = NoPath
            /\ job'[j].tempOutput = NoPath
            /\ \/ /\ job[j].pc = "new" /\ job'[j].pc = "probing"
                  /\ job'[j].trace = <<"spawn_probing">> /\ job'[j].engines = 1
               \/ /\ job[j].pc = "probing" /\ job'[j].pc \in {"done", "failed"}
                  /\ job'[j].trace = <<"spawn_probing", "respond">>
                  /\ job'[j].engines = 0
                  /\ job'[j].status = IF job'[j].pc = "done" THEN 200 ELSE 500]_vars

\* C34, witness: a probe without thumbnail has answered 200 after its one
\* subprocess, while the upload of another request is still in uploads/.
C34_Witness ==
  \E j \in Jobs, k \in Jobs :
    /\ job[j].op = "probe" /\ job[j].pc = "done" /\ job[j].status = 200
    /\ job[j].trace = <<"spawn_probing", "respond">>
    /\ job[k].op \in FileOps /\ job[k].inputPath \in files

\* C35: in probe with thumbnail, once the metadata probe has succeeded,
\* every later failure ends the request with an error response whose body
\* carries the metadata already retrieved: every step that takes such a
\* request out of its stages without a delivery, other than the answer to a
\* failed metadata probe, is an error response with the metadata.
C35_ThumbnailFailureKeepsMetadata ==
  [][\A j \in Jobs :
       (job[j].op = "probe" /\ job[j].thumbnail
          /\ job[j].pc \in {"probing", "processing"}
          /\ job'[j].pc \notin {job[j].pc, "processing", "delivering"}
          /\ ~(job[j].pc = "probing" /\ job'[j].error = "engine"))
         => /\ job'[j].pc = "failed" /\ job'[j].status >= 400
            /\ job'[j].body = "metadata"]_vars
====
